---------------------------- MODULE Spec2Model ----------------------------
(***************************************************************************)
(* A model of pyal: the YAL parser (yal/core.py) and the conversion of     *)
(* parsed modules to placement participants (yal/util/util.py).            *)
(*                                                                         *)
(* The text is modelled at token granularity: a document is a sequence of  *)
(* tokens, a token is what one pyparsing Word/Literal matches after         *)
(* whitespace has been skipped.  Comments are tokens the grammar ignores.  *)
(* A Python dict and a dataclass are both TLA+ functions with string keys. *)
(***************************************************************************)
EXTENDS Integers, Sequences, FiniteSets, TLC

VARIABLES
    pc,            \* the API call being exercised
    outcome,       \* "pending", "returned" or "raised"
    error,         \* name of the raised exception, "" when none
    source,        \* description of the document the text was written from
    text,          \* parse: the token sequence handed to parse
    modules,       \* list of Module records (parse result / conversion input)
    flags,         \* keyword arguments of as_participants
    bounds,        \* x_bound, y_bound handed to randomize_placement
    rand,          \* state of the module-level random source
    participants   \* list of participant dicts produced

vars == <<pc, outcome, error, source, text, modules, flags, bounds, rand,
          participants>>

(***************************************************************************)
(* Python values                                                           *)
(***************************************************************************)
\* Python None.  No token equals it: tokens are words over alphanumerics.
None == "<None>"

\* The empty dict {} / empty list [].
Empty == <<>>

\* dict merge a | b: keys of b win.
Merge(a, b) ==
    [k \in (DOMAIN a) \cup (DOMAIN b) |-> IF k \in DOMAIN b THEN b[k] ELSE a[k]]

\* d.get(k, default)
Get(d, k, default) == IF k \in DOMAIN d THEN d[k] ELSE default

Min(S) == CHOOSE v \in S : \A w \in S : v <= w
Max(S) == CHOOSE v \in S : \A w \in S : v >= w

Range(s) == {s[i] : i \in DOMAIN s}

(***************************************************************************)
(* Tokens                                                                  *)
(***************************************************************************)
Comment == "/*c*/"

\* Word(nums)
Nums == {"0", "2", "5", "10"}
\* Word(nums + '-')
SignedNums == Nums \cup {"-20"}
\* Word(nums + '.-')
Decimals == SignedNums \cup {"1.5"}

IntOf(t) ==
    CASE t = "0" -> 0 [] t = "2" -> 2 [] t = "5" -> 5 [] t = "10" -> 10
      [] t = "-20" -> 0 - 20

ModuleTypes   == {"STANDARD", "PAD", "GENERAL", "PARENT", "FEEDTHROUGH"}
TerminalTypes == {"I", "O", "B", "PI", "PO", "PB", "F", "PWR", "GND"}
Sides         == {"BOTTOM", "RIGHT", "TOP", "LEFT"}
Layers        == {"PDIFF", "NDIFF", "POLY", "METAL1", "METAL2"}
Reflections   == {"RFLNONE", "RFLY"}
Rotations     == {"ROT0", "ROT90", "ROT180", "ROT270"}

Identifiers == {"bound", "m1", "M1", "a", "i1", "n1", "n2", "G", "garbage"}

\* Word(alphanums + '_'): identifiers, digit strings and the bare keywords.
\* A section keyword such as "ENDIOLIST;" ends in ';', so a word can only
\* match its prefix and the rule it starts then fails on the ';'.
Words ==
    Identifiers \cup Nums \cup ModuleTypes \cup TerminalTypes \cup Sides
      \cup Layers \cup Reflections \cup Rotations
      \cup {"MODULE", "TYPE", "DIMENSIONS", "CURRENT", "VOLTAGE"}

(***************************************************************************)
(* pyparsing: a parser element maps a position in the text to its result,  *)
(* the tokens matched plus the results names set at this level              *)
(***************************************************************************)
Fail == [ok |-> FALSE, pos |-> 0, toks |-> <<>>, names |-> <<>>]

Epsilon(i) == [ok |-> i >= 1, pos |-> i, toks |-> <<>>, names |-> <<>>]

Positions(s) == 1..(Len(s) + 1)

\* A matched token is a Python str; a Group is a nested result.  Both are
\* wrapped so that code applying .get to a str can be seen to fail.
Str(t) == [str |-> t]

IsStr(v) == DOMAIN v = {"str"}

\* .ignore(_comment): comments are skipped before every token
RECURSIVE SkipIgnorables(_, _)
SkipIgnorables(s, i) ==
    IF i >= 1 /\ i <= Len(s) /\ s[i] = Comment
    THEN SkipIgnorables(s, i + 1)
    ELSE i

\* one token out of a class, at position i
Match(s, i, class) ==
    LET j == SkipIgnorables(s, i)
    IN  IF j >= 1 /\ j <= Len(s) /\ s[j] \in class
        THEN [ok |-> TRUE, pos |-> j + 1, toks |-> <<Str(s[j])>>, names |-> <<>>]
        ELSE Fail

\* Word(chars), and an alternative of Literals
Word(s, class) == [i \in Positions(s) |-> Match(s, i, class)]

Literal(s, keyword) == [i \in Positions(s) |-> Match(s, i, {keyword})]

\* the result of a + b: tokens are concatenated, later names override
\* earlier ones
Concat(r1, r2) ==
    IF r1.ok /\ r2.ok
    THEN [ok |-> TRUE, pos |-> r2.pos, toks |-> r1.toks \o r2.toks,
          names |-> Merge(r1.names, r2.names)]
    ELSE Fail

\* the elements es matched one after the other, after the result r
RECURSIVE AndAfter(_, _)
AndAfter(es, r) ==
    IF ~r.ok THEN Fail
    ELSE IF Len(es) = 0 THEN r
    ELSE AndAfter(Tail(es), Concat(r, Head(es)[r.pos]))

\* e1 + e2 + ... (And)
And(s, es) == [i \in Positions(s) |-> AndAfter(es, Epsilon(i))]

\* e1 | e2 (MatchFirst)
MatchFirst(s, e1, e2) ==
    [i \in Positions(s) |-> LET r == e1[i] IN IF r.ok THEN r ELSE e2[i]]

Suppress(s, e) ==
    [i \in Positions(s) |->
        LET r == e[i] IN IF r.ok THEN [r EXCEPT !.toks = <<>>] ELSE Fail]

Optional(s, e) ==
    [i \in Positions(s) |-> LET r == e[i] IN IF r.ok THEN r ELSE Epsilon(i)]

\* Group(e): the tokens and the names of e become one nested result; the
\* names do not reach the enclosing level.
Group(s, e) ==
    [i \in Positions(s) |->
        LET r == e[i]
        IN  IF r.ok
            THEN [ok |-> TRUE, pos |-> r.pos,
                  toks |-> <<[toks |-> r.toks, names |-> r.names]>>,
                  names |-> <<>>]
            ELSE Fail]

\* e('name') on an element that yields one token (or one group)
Named(s, e, name) ==
    [i \in Positions(s) |->
        LET r == e[i]
        IN  IF r.ok THEN [r EXCEPT !.names = Merge(@, name :> r.toks[1])]
            ELSE Fail]

\* e('name') on a repetition: the name holds the list of all its tokens
NamedList(s, e, name) ==
    [i \in Positions(s) |->
        LET r == e[i]
        IN  IF r.ok THEN [r EXCEPT !.names = Merge(@, name :> r.toks)]
            ELSE Fail]

\* the repetitions of e from position i on, as many as match
RECURSIVE ZeroOrMoreAt(_, _)
ZeroOrMoreAt(e, i) ==
    LET r == e[i]
    IN  IF r.ok THEN Concat(r, ZeroOrMoreAt(e, r.pos)) ELSE Epsilon(i)

OneOrMore(s, e) ==
    [i \in Positions(s) |->
        LET r == e[i]
        IN  IF r.ok THEN Concat(r, ZeroOrMoreAt(e, r.pos)) ELSE Fail]

(***************************************************************************)
(* The grammar, core.py lines 13-78                                        *)
(***************************************************************************)
_module_name(s)    == Word(s, Words)
_module_type(s)    == Word(s, ModuleTypes)
_width(s)          == Word(s, Nums)
_signal_name(s)    == Word(s, Words)
_terminal_type(s)  == Word(s, TerminalTypes)
_side(s)           == Word(s, Sides)
_layer(s)          == Word(s, Layers)
_x_position(s)     == Word(s, SignedNums)
_y_position(s)     == Word(s, SignedNums)
_position(s)       == Word(s, SignedNums)
_instance_name(s)  == Word(s, Words)
_x_location(s)     == Word(s, SignedNums)
_y_location(s)     == Word(s, SignedNums)
_current(s)        == Word(s, Decimals)
_voltage(s)        == Word(s, Decimals)
_maximum_length(s) == Word(s, Nums)
_reflection(s)     == Word(s, Reflections)
_rotation(s)       == Word(s, Rotations)
_x(s)              == Word(s, SignedNums)
_y(s)              == Word(s, SignedNums)

_io(s) ==
    Group(s, And(s, <<
        Named(s, _signal_name(s), "name"),
        Named(s, _terminal_type(s), "type"),
        MatchFirst(s,
            Group(s, And(s, <<
                Named(s, _x_position(s), "x"),
                Named(s, _y_position(s), "y"),
                Optional(s, And(s, << Named(s, _width(s), "width"),
                                      Named(s, _layer(s), "layer") >>)) >>)),
            Group(s, And(s, <<
                Named(s, _side(s), "side"),
                Named(s, _position(s), "pos"),
                Optional(s, And(s, << Named(s, _width(s), "width"),
                                      Named(s, _layer(s), "layer") >>)) >>))),
        Optional(s, And(s, << Literal(s, "CURRENT"),
                              Named(s, _current(s), "current") >>)),
        Optional(s, And(s, << Literal(s, "VOLTAGE"),
                              Named(s, _voltage(s), "voltage") >>)) >>))

_ios(s) == OneOrMore(s, And(s, << _io(s), Suppress(s, Literal(s, ";")) >>))

_dimension(s) == Group(s, And(s, << _x(s), _y(s) >>))

_dimensions(s) == OneOrMore(s, _dimension(s))

_network(s) ==
    Group(s, And(s, <<
        Named(s, _instance_name(s), "name"),
        Named(s, _module_name(s), "module"),
        NamedList(s, OneOrMore(s, _signal_name(s)), "signals") >>))

_networks(s) ==
    OneOrMore(s, And(s, << _network(s), Suppress(s, Literal(s, ";")) >>))

\* not grouped: the name and the placement are tokens of the enclosing list
_placement(s) ==
    And(s, <<
        Named(s, _instance_name(s), "name"),
        Named(s, Group(s, And(s, <<
                    _x_location(s),
                    Named(s, _y_location(s), "y"),
                    Optional(s, _reflection(s)),
                    Optional(s, _rotation(s)) >>)),
              "placement") >>)

_placements(s) ==
    OneOrMore(s, And(s, << _placement(s), Suppress(s, Literal(s, ";")) >>))

\* not grouped either
_critnet(s) ==
    And(s, << Named(s, _signal_name(s), "name"),
              Named(s, _maximum_length(s), "len") >>)

_critnets(s) ==
    OneOrMore(s, And(s, << _critnet(s), Suppress(s, Literal(s, ";")) >>))

_module(s) ==
    Group(s, And(s, <<
        Literal(s, "MODULE"), Named(s, _module_name(s), "name"),
            Suppress(s, Literal(s, ";")),
        Literal(s, "TYPE"), Named(s, _module_type(s), "type"),
            Suppress(s, Literal(s, ";")),
        Literal(s, "DIMENSIONS"), NamedList(s, _dimensions(s), "dims"),
            Suppress(s, Literal(s, ";")),
        Suppress(s, Literal(s, "IOLIST;")),
        NamedList(s, _ios(s), "terms"),
        Suppress(s, Literal(s, "ENDIOLIST;")),
        Optional(s, And(s, << Suppress(s, Literal(s, "NETWORK;")),
                              NamedList(s, _networks(s), "nets"),
                              Suppress(s, Literal(s, "ENDNETWORK;")) >>)),
        Optional(s, And(s, << Suppress(s, Literal(s, "PLACEMENT;")),
                              NamedList(s, _placements(s), "placements"),
                              Suppress(s, Literal(s, "ENDPLACEMENT;")) >>)),
        Optional(s, And(s, << Suppress(s, Literal(s, "CRITICALNETS;")),
                              NamedList(s, _critnets(s), "crits"),
                              Suppress(s, Literal(s, "ENDCRITICALNETS;")) >>)),
        Suppress(s, Literal(s, "ENDMODULE;")) >>))

\* grammar = OneOrMore(_module).ignore(_comment)
grammar(s) == OneOrMore(s, _module(s))

\* grammar.parseString(text): parseAll is left at its default, False, so the
\* match starts at the beginning and whatever follows it is not looked at.
parseString(s) == grammar(s)[1]

(***************************************************************************)
(* The model builder, core.py lines 80-157                                 *)
(***************************************************************************)
\* parse_result.get(name, default) where the value is one token
GetStr(pr, name, default) ==
    IF name \in DOMAIN pr.names THEN pr.names[name].str ELSE default

\* parse_result.get(name, []) where the value is a list
GetList(pr, name) == Get(pr.names, name, <<>>)

make_network(pr) ==
    [instance_name |-> GetStr(pr, "name", "NO NAME"),
     module_name   |-> GetStr(pr, "module", "NO MODULE"),
     signal_names  |-> [i \in DOMAIN GetList(pr, "signals") |->
                            GetList(pr, "signals")[i].str]]

make_terminal(pr) ==
    [signal_name   |-> GetStr(pr, "name", "NO NAME"),
     terminal_type |-> GetStr(pr, "type", "NO TYPE"),
     x_position    |-> GetStr(pr, "x", None),
     y_position    |-> GetStr(pr, "y", None),
     width         |-> GetStr(pr, "width", None),
     layer         |-> GetStr(pr, "layer", None),
     position      |-> GetStr(pr, "position", None),
     size          |-> GetStr(pr, "size", None),
     side          |-> GetStr(pr, "side", None)]

\* the first item of a key
FirstOf(keys, k) == Min({i \in DOMAIN keys : keys[i] = k})

\* { key(p): value(p) for p in list }: the item that a key ends up with is
\* the last one of that key, a later item replaces an earlier one
LastOf(keys, k) == Max({i \in DOMAIN keys : keys[i] = k})

PlacementKey(p) == GetStr(p, "name", "NO NAME")

\* tuple(p.get('placement', []))
PlacementValue(p) ==
    LET g == Get(p.names, "placement", [toks |-> <<>>, names |-> <<>>])
    IN  [i \in DOMAIN g.toks |-> g.toks[i].str]

CritKey(c) == GetStr(c, "name", "NO NAME")

CritValue(c) == GetStr(c, "len", None)

\* make_module returns a Module, or raises: p.get / c.get on an item that
\* is a str is an AttributeError.
make_module(pr) ==
    LET dims   == GetList(pr, "dims")
        terms  == GetList(pr, "terms")
        nets   == GetList(pr, "nets")
        places == GetList(pr, "placements")
        crits  == GetList(pr, "crits")
    IN  IF \E i \in DOMAIN places : IsStr(places[i])
        THEN [raised |-> "AttributeError"]
        ELSE IF \E i \in DOMAIN crits : IsStr(crits[i])
        THEN [raised |-> "AttributeError"]
        ELSE [raised |-> "",
              value  |->
                [module_name   |-> GetStr(pr, "name", "NO NAME"),
                 module_type   |-> GetStr(pr, "type", "NO TYPE"),
                 dimensions    |-> [i \in DOMAIN dims |->
                                      <<IntOf(dims[i].toks[1].str),
                                        IntOf(dims[i].toks[2].str)>>],
                 terminals     |-> [i \in DOMAIN terms |->
                                      make_terminal(terms[i])],
                 network       |-> [i \in DOMAIN nets |->
                                      make_network(nets[i])],
                 placement     |->
                   LET keys == [i \in DOMAIN places |-> PlacementKey(places[i])]
                   IN  [k \in Range(keys) |->
                          PlacementValue(places[LastOf(keys, k)])],
                 critical_nets |->
                   LET keys == [i \in DOMAIN crits |-> CritKey(crits[i])]
                   IN  [k \in Range(keys) |->
                          CritValue(crits[LastOf(keys, k)])]]]

\* parse(file_contents): the list of Modules, or the exception raised
parse(s) ==
    LET r     == parseString(s)
        built == [i \in DOMAIN r.toks |-> make_module(r.toks[i])]
        bad   == {i \in DOMAIN built : built[i].raised # ""}
    IN  IF ~r.ok THEN [raised |-> "ParseException"]
        ELSE IF bad # {} THEN [raised |-> built[Min(bad)].raised]
        ELSE [raised |-> "", value |-> [i \in DOMAIN built |-> built[i].value]]

(***************************************************************************)
(* Documents: the text of a block is written from its description          *)
(***************************************************************************)
RECURSIVE Flatten(_)
Flatten(ss) == IF ss = <<>> THEN <<>> ELSE Head(ss) \o Flatten(Tail(ss))

Present(v) == IF v = None THEN <<>> ELSE <<v>>

RenderTerminal(t) ==
    <<t.name, t.type>> \o Present(t.x) \o Present(t.y) \o Present(t.side)
      \o Present(t.pos) \o Present(t.width) \o Present(t.layer)
      \o (IF t.current = None THEN <<>> ELSE <<"CURRENT", t.current>>)
      \o (IF t.voltage = None THEN <<>> ELSE <<"VOLTAGE", t.voltage>>)
      \o <<";">>

RenderNetwork(n) == <<n.name, n.module>> \o n.signals \o <<";">>

RenderPlacement(p) ==
    <<p.name, p.x, p.y>> \o Present(p.reflection) \o Present(p.rotation)
      \o <<";">>

RenderCritnet(c) == <<c.name, c.len, ";">>

RenderSection(open, items, close) ==
    IF items = <<>> THEN <<>> ELSE <<open>> \o Flatten(items) \o <<close>>

RenderBlock(b) ==
    (IF b.comment THEN <<Comment>> ELSE <<>>)
      \o <<"MODULE", b.name, ";", "TYPE", b.type, ";", "DIMENSIONS">>
      \o Flatten(b.dims) \o <<";", "IOLIST;">>
      \o Flatten([i \in DOMAIN b.terms |-> RenderTerminal(b.terms[i])])
      \o (IF b.comment THEN <<Comment, Comment>> ELSE <<>>)
      \o <<"ENDIOLIST;">>
      \o RenderSection("NETWORK;",
            [i \in DOMAIN b.nets |-> RenderNetwork(b.nets[i])], "ENDNETWORK;")
      \o RenderSection("PLACEMENT;",
            [i \in DOMAIN b.placements |-> RenderPlacement(b.placements[i])],
            "ENDPLACEMENT;")
      \o RenderSection("CRITICALNETS;",
            [i \in DOMAIN b.crits |-> RenderCritnet(b.crits[i])],
            "ENDCRITICALNETS;")
      \o <<"ENDMODULE;">>

RenderDocument(d) ==
    Flatten([i \in DOMAIN d.blocks |-> RenderBlock(d.blocks[i])]) \o d.tail

\* bound on the number of module blocks of a document
MaxBlocks == 2

SeqsUpTo(S, n) == UNION {[1..k -> S] : k \in 0..n}

TermDescs ==
    {[name |-> "a", type |-> ty, x |-> g[1], y |-> g[2], side |-> g[3],
      pos |-> g[4], width |-> w[1], layer |-> w[2], current |-> c,
      voltage |-> v] :
        ty \in {"I", "PWR"},
        g \in {<<"10", "-20", None, None>>, <<None, None, "LEFT", "5">>},
        w \in {<<None, None>>, <<"2", "METAL1">>},
        c \in {None, "1.5"}, v \in {None, "-20"}}

PlainTerm ==
    [name |-> "a", type |-> "I", x |-> "10", y |-> "-20", side |-> None,
     pos |-> None, width |-> None, layer |-> None, current |-> None,
     voltage |-> None]

NetDescs ==
    {<<>>,
     <<[name |-> "i1", module |-> "M1", signals |-> <<"n1">>]>>,
     <<[name |-> "i1", module |-> "M1", signals |-> <<"n1", "n2", "G">>],
       [name |-> "i1", module |-> "m1", signals |-> <<"n2", "G">>]>>}

PlacementDescs ==
    {<<>>}
      \cup {<<[name |-> "i1", x |-> "10", y |-> "-20", reflection |-> f,
               rotation |-> r]>> :
               f \in {None, "RFLY"}, r \in {None, "ROT90"}}
      \cup {<<[name |-> "i1", x |-> "10", y |-> "-20", reflection |-> None,
               rotation |-> None],
              [name |-> "a", x |-> "0", y |-> "5", reflection |-> "RFLNONE",
               rotation |-> "ROT0"]>>}

CritDescs ==
    {<<>>, <<[name |-> "n1", len |-> "10"]>>,
     <<[name |-> "n1", len |-> "10"], [name |-> "n2", len |-> "0"]>>}

PlainBlock ==
    [name |-> "m1", type |-> "STANDARD", comment |-> FALSE,
     dims |-> <<<<"0", "0">>, <<"10", "5">>>>, terms |-> <<PlainTerm>>,
     nets |-> <<>>, placements |-> <<>>, crits |-> <<>>]

\* blocks used in documents of several blocks
BasicBlocks ==
    {PlainBlock,
     [PlainBlock EXCEPT !.comment = TRUE, !.type = "PAD"],
     [PlainBlock EXCEPT !.name = "bound", !.type = "PARENT",
        !.nets = <<[name |-> "i1", module |-> "m1",
                    signals |-> <<"n1", "G">>]>>]}

\* blocks that vary the terminal or the optional sections
RichBlocks ==
    {[PlainBlock EXCEPT !.terms = <<t>>] : t \in TermDescs}
      \cup {[PlainBlock EXCEPT !.terms = <<PlainTerm, t>>] : t \in TermDescs}
      \cup {[PlainBlock EXCEPT !.nets = n, !.placements = p, !.crits = c] :
               n \in NetDescs, p \in PlacementDescs, c \in CritDescs}

\* text after the last complete block; none of the non-empty ones is a
\* complete module block
Tails ==
    {<<>>,
     <<"garbage">>,
     <<"MODULE", "m1", ";", "TYPE", "STANDARD", ";">>,
     <<"MODULE", "m1", ";", "TYPE", "WRONG", ";", "DIMENSIONS", "0", "0",
       ";", "IOLIST;", "a", "I", "0", "0", ";", "ENDIOLIST;", "ENDMODULE;">>,
     <<"MODULE", "m1", ";", "TYPE", "STANDARD", ";", "DIMENSIONS", "0", "0",
       ";", "IOLIST;", "a", "I", "0", "0", ";", "ENDIOLIST;", "NETWORK;",
       "ENDNETWORK;", "ENDMODULE;">>}

Documents ==
    {[blocks |-> bs, tail |-> tl] :
        bs \in SeqsUpTo(BasicBlocks, MaxBlocks), tl \in Tails}
      \cup {[blocks |-> <<b>>, tail |-> <<>>] : b \in RichBlocks}

(***************************************************************************)
(* The random source: random.randrange draws from module-level state       *)
(***************************************************************************)
\* The state of the source is the cycle of draws it will deliver and the
\* position in it.  A draw says where in the requested range the value
\* falls: its first value, its last value, or the middle.
Draw(r, k) == r.pattern[((r.pos + k) % Len(r.pattern)) + 1]

Advance(r, n) == [r EXCEPT !.pos = (@ + n) % Len(r.pattern)]

\* randrange(start, stop, 1) for a non-empty range
randrange(start, stop, u) ==
    CASE u = "lo"  -> start
      [] u = "hi"  -> stop - 1
      [] u = "mid" -> start + ((stop - start) \div 2)

HexDigit(d) ==
    CASE d = 0 -> "0" [] d = 1 -> "1" [] d = 2 -> "2" [] d = 3 -> "3"
      [] d = 4 -> "4" [] d = 5 -> "5" [] d = 6 -> "6" [] d = 7 -> "7"
      [] d = 8 -> "8" [] d = 9 -> "9" [] d = 10 -> "a" [] d = 11 -> "b"
      [] d = 12 -> "c" [] d = 13 -> "d" [] d = 14 -> "e" [] d = 15 -> "f"

\* format(n, 'x')
RECURSIVE format(_)
format(n) ==
    IF n < 16 THEN HexDigit(n) ELSE format(n \div 16) \o HexDigit(n % 16)

\* random_color(): '#' + hex of randrange(0, 2**24 - 1)
random_color(u) == "#" \o format(randrange(0, 16777215, u))

(***************************************************************************)
(* util.py                                                                 *)
(***************************************************************************)
\* default of x_bound and y_bound
DefaultBound == 120

_init_participant ==
    [idx |-> None, xmin |-> 0, ymin |-> 0, width |-> 0, height |-> 0,
     clashes |-> Empty, aversions |-> Empty, inference |-> 0,
     connections |-> <<Empty>>, turmoil |-> 0, wounds |-> Empty]

\* The 'connections' entry holds an optional dict: <<d>> is the dict d and
\* <<>> is None.
NoConnections == <<>>

\* tuple comparison of Python: first by x, then by y
LexLess(p, q) == p[1] < q[1] \/ (p[1] = q[1] /\ p[2] < q[2])

\* the points left in file order
unsorted(dims) == dims

\* sorted(module.dimensions)
RECURSIVE sorted(_)
sorted(dims) ==
    IF dims = <<>> THEN <<>>
    ELSE LET m == CHOOSE i \in DOMAIN dims :
                     \A j \in DOMAIN dims : ~LexLess(dims[j], dims[i])
             rest == [j \in 1..(Len(dims) - 1) |->
                         IF j < m THEN dims[j] ELSE dims[j + 1]]
         IN  <<dims[m]>> \o sorted(rest)

\* core.as_dict(module): the fields of the dataclass, points as {'x','y'}
as_dict(module) ==
    [module EXCEPT !.dimensions =
        [i \in DOMAIN @ |-> [x |-> @[i][1], y |-> @[i][2]]]]

OptionalFields ==
    <<"module_type", "dimensions", "terminals", "network", "placement",
      "critical_nets">>

\* fields = [f for c,f in all_fields if c]
Fields(fl) == {f \in Range(OptionalFields) : fl[f]}

\* as_participant(module, opt_fields, colorize); u is the draw the colour
\* takes when one is made
as_participant(module, opt_fields, colorize, u) ==
    LET dims     == sorted(module.dimensions)
        x_min    == dims[1][1]
        y_min    == dims[1][2]
        x_max    == dims[Len(dims)][1]
        y_max    == dims[Len(dims)][2]
        idx      == module.module_name
        d        == as_dict(module)
        mod_dict == [k \in (DOMAIN d) \cap opt_fields |-> d[k]]
    IN  Merge(Merge(mod_dict, _init_participant),
              [idx    |-> idx,
               width  |-> x_max - x_min,
               height |-> y_max - y_min,
               xmin   |-> x_min,
               ymin   |-> y_min,
               color  |-> IF colorize /\ idx # "bound"
                          THEN random_color(u) ELSE None])

\* a placement that draws from the whole plane, whatever the size
randomize_anywhere(participant, x_bound, y_bound, r) ==
    IF x_bound <= 0 THEN [raised |-> "ValueError", rand |-> r]
    ELSE IF y_bound <= 0
    THEN [raised |-> "ValueError", rand |-> Advance(r, 1)]
    ELSE [raised |-> "",
          rand   |-> Advance(r, 2),
          value  |-> Merge(participant,
                       [xmin |-> randrange(0, x_bound, Draw(r, 0)),
                        ymin |-> randrange(0, y_bound, Draw(r, 1))])]

\* randomize_placement(participant, x_bound, y_bound) with the source in
\* state r: the participant placed and the source advanced, or ValueError
\* from randrange on an empty range.
randomize_placement(participant, x_bound, y_bound, r) ==
    LET x_limit == x_bound - participant.width
        y_limit == y_bound - participant.height
    IN  IF x_limit <= 0 THEN [raised |-> "ValueError", rand |-> r]
        ELSE IF y_limit <= 0
        THEN [raised |-> "ValueError", rand |-> Advance(r, 1)]
        ELSE [raised |-> "",
              rand   |-> Advance(r, 2),
              value  |-> Merge(participant,
                           [xmin |-> randrange(0, x_limit, Draw(r, 0)),
                            ymin |-> randrange(0, y_limit, Draw(r, 1))])]

\* connects that counts the rail names too
connects_with_rails(participant, others) ==
    LET name == participant.module_name
        sigs == Range(participant.signal_names)
        kept == SelectSeq(others,
                          LAMBDA p : p.module_name \notin {name, "bound"})
        keys == [i \in DOMAIN kept |-> kept[i].module_name]
        Weight(p) == Cardinality(Range(p.signal_names) \cap sigs)
    IN  [k \in Range(keys) |-> Weight(kept[LastOf(keys, k)])]

\* connects that keeps the entries named "bound"
connects_with_bound(participant, others) ==
    LET name == participant.module_name
        sigs == Range(participant.signal_names)
        kept == SelectSeq(others, LAMBDA p : p.module_name # name)
        keys == [i \in DOMAIN kept |-> kept[i].module_name]
        Weight(p) == Cardinality((Range(p.signal_names) \cap sigs)
                                   \ {"G", "P"})
    IN  [k \in Range(keys) |-> Weight(kept[LastOf(keys, k)])]

\* connects(participant, participants) over Network entries
connects(participant, others) ==
    LET name == participant.module_name
        sigs == Range(participant.signal_names)
        kept == SelectSeq(others,
                          LAMBDA p : p.module_name \notin {name, "bound"})
        keys == [i \in DOMAIN kept |-> kept[i].module_name]
        Weight(p) == Cardinality((Range(p.signal_names) \cap sigs)
                                   \ {"G", "P"})
    IN  [k \in Range(keys) |-> Weight(kept[LastOf(keys, k)])]

IsBound(p) == p.idx = "bound"

\* a filter that lets every participant through
AnyParticipant(p) == TRUE

NotBound(p) == p.idx # "bound"

\* the bound participants put first
BoundFirst(rng_parts, bound) == bound \o rng_parts

\* number of colours drawn for the modules before position i
ColoursBefore(ms, colorize, i) ==
    IF colorize
    THEN Cardinality({j \in 1..(i - 1) : ms[j].module_name # "bound"})
    ELSE 0

\* [randomize_placement(p, x_bound, y_bound) for p in parts if not bound]
RECURSIVE RandomizeAll(_, _, _, _)
RandomizeAll(ps, x_bound, y_bound, r) ==
    IF ps = <<>> THEN [raised |-> "", rand |-> r, value |-> <<>>]
    ELSE LET h == randomize_placement(Head(ps), x_bound, y_bound, r)
             t == RandomizeAll(Tail(ps), x_bound, y_bound, h.rand)
         IN  IF h.raised # "" THEN h
             ELSE IF t.raised # "" THEN t
             ELSE [raised |-> "", rand |-> t.rand,
                   value |-> <<h.value>> \o t.value]

\* participants = (rng_parts + bound) if bound else rng_parts
Reordered(rng_parts, bound) == rng_parts \o bound

\* as_participants(modules, **flags) with the source in state r: the list
\* of participants and the source advanced, or the exception raised
as_participants(ms, fl, r) ==
    LET fields == Fields(fl)
        parts  == [i \in DOMAIN ms |->
                     as_participant(ms[i], fields, fl.colorize,
                                    Draw(r, ColoursBefore(ms, fl.colorize, i)))]
        r1     == Advance(r, ColoursBefore(ms, fl.colorize, Len(ms) + 1))
        bound  == SelectSeq(parts, IsBound)
        x_bound == IF bound # <<>> THEN bound[1].width ELSE DefaultBound
        y_bound == IF bound # <<>> THEN bound[1].height ELSE DefaultBound
        rng    == RandomizeAll(SelectSeq(parts, NotBound), x_bound, y_bound, r1)
        placed == IF fl.rng_placement THEN Reordered(rng.value, bound)
                  ELSE parts
        network == IF bound # <<>> THEN Get(bound[1], "network", <<>>)
                   ELSE <<>>
        keys    == [i \in DOMAIN network |-> network[i].module_name]
        cons    == [k \in Range(keys) |->
                      connects(network[LastOf(keys, k)], network)]
    IN  IF fl.rng_placement /\ rng.raised # ""
        THEN [raised |-> rng.raised, rand |-> rng.rand]
        ELSE [raised |-> "",
              rand   |-> IF fl.rng_placement THEN rng.rand ELSE r1,
              value  |-> [i \in DOMAIN placed |->
                            Merge(placed[i],
                                  [connections |->
                                     IF placed[i].idx \in DOMAIN cons
                                     THEN <<cons[placed[i].idx]>>
                                     ELSE NoConnections])]]

(***************************************************************************)
(* Inputs of the conversion                                                *)
(***************************************************************************)
\* bound on the number of points of a module outline
MaxPoints == 3
\* bound on the number of modules handed to as_participants
MaxModules == 3
\* bound on the number of entries of a network
MaxNets == 3

NonEmptySeqsUpTo(S, n) == UNION {[1..k -> S] : k \in 1..n}

ATerminal ==
    [signal_name |-> "a", terminal_type |-> "I", x_position |-> None,
     y_position |-> None, width |-> None, layer |-> None, position |-> None,
     size |-> None, side |-> None]

Mk(name, dims, net) ==
    [module_name |-> name, module_type |-> "STANDARD", dimensions |-> dims,
     terminals |-> <<ATerminal>>, network |-> net, placement |-> Empty,
     critical_nets |-> Empty]

Entry(m, sigs) ==
    [instance_name |-> "i", module_name |-> m, signal_names |-> sigs]

Names == {"bound", "M1", "M2"}

XCoords == {0 - 1, 0, 2}
YCoords == {0, 2}

Outlines == NonEmptySeqsUpTo(XCoords \X YCoords, MaxPoints)

Box1 == <<<<0, 0>>, <<0, 1>>, <<1, 1>>, <<1, 0>>>>
Box3 == <<<<4, 4>>, <<1, 4>>, <<4, 1>>, <<1, 1>>>>
Wide == <<<<0, 0>>, <<120, 2>>>>

FixedNet == <<Entry("M1", <<"n1", "n2", "G">>), Entry("M2", <<"n2", "G">>)>>

SignalLists == {<<"n1", "n2", "G">>, <<"n2", "n3", "G", "P">>}

Networks ==
    SeqsUpTo({Entry(m, sg) : m \in Names, sg \in SignalLists}, MaxNets)

RandomSources ==
    {[pattern |-> pt, pos |-> 0] :
        pt \in {<<"lo">>, <<"hi">>, <<"hi", "lo", "mid">>}}

DefaultFlags ==
    [rng_placement |-> TRUE, colorize |-> TRUE, module_type |-> FALSE,
     dimensions |-> FALSE, terminals |-> FALSE, network |-> TRUE,
     placement |-> FALSE, critical_nets |-> FALSE]

AllFlags ==
    [{"rng_placement", "colorize"} \cup Range(OptionalFields) -> BOOLEAN]

\* lists that vary names, order and sizes
PlacementInputs ==
    {[modules |-> ms, flags |-> [DefaultFlags EXCEPT !.rng_placement = g,
                                                    !.colorize = c]] :
        ms \in SeqsUpTo({Mk(n, d, IF n = "bound" THEN FixedNet ELSE <<>>) :
                            n \in Names, d \in {Box1, Box3, Wide}},
                        MaxModules),
        g \in BOOLEAN, c \in BOOLEAN}

\* lists that vary the network
NetworkInputs ==
    {[modules |-> ms, flags |-> [DefaultFlags EXCEPT !.rng_placement = g,
                                                    !.colorize = FALSE,
                                                    !.network = k]] :
        ms \in UNION {{<<Mk("M1", Box1, <<>>), Mk("M2", Box1, <<>>),
                        Mk("bound", Box3, nt)>>,
                      <<Mk("bound", Box3, nt), Mk("M2", Box1, <<>>),
                        Mk("bound", Box3, FixedNet)>>,
                      <<Mk("M1", Box1, nt), Mk("M2", Box1, <<>>)>>} :
                        nt \in Networks},
        g \in BOOLEAN, k \in BOOLEAN}

\* one list under every setting of the flags
FlagInputs ==
    {[modules |-> <<Mk("M1", Box1, <<>>), Mk("bound", Box3, FixedNet),
                    Mk("M2", Box1, <<>>)>>,
      flags |-> f] : f \in AllFlags}

IdleSource == [pattern |-> <<"lo">>, pos |-> 0]

(***************************************************************************)
(* Calls                                                                   *)
(***************************************************************************)
InitParse ==
    /\ pc = "parse"
    /\ source \in Documents
    /\ text = RenderDocument(source)
    /\ modules = <<>>
    /\ flags = DefaultFlags
    /\ bounds = <<DefaultBound, DefaultBound>>
    /\ rand = IdleSource
    /\ participants = <<>>

\* as_participant on one module, then randomize_placement on its result
BoundChoices == {<<DefaultBound, DefaultBound>>, <<3, 3>>, <<2, 3>>, <<4, 2>>}

InitParticipant ==
    /\ pc = "as_participant"
    /\ source = [blocks |-> <<>>, tail |-> <<>>]
    /\ text = <<>>
    /\ \E n \in {<<"M1", TRUE>>, <<"M1", FALSE>>, <<"bound", TRUE>>} :
         /\ \E d \in Outlines : modules = <<Mk(n[1], d, <<>>)>>
         /\ flags = [DefaultFlags EXCEPT !.colorize = n[2]]
    /\ bounds \in BoundChoices
    /\ rand \in RandomSources
    /\ participants = <<>>

InitParticipants ==
    /\ pc = "as_participants"
    /\ source = [blocks |-> <<>>, tail |-> <<>>]
    /\ text = <<>>
    /\ \/ \E in \in PlacementInputs :
            /\ modules = in.modules /\ flags = in.flags
            /\ rand \in RandomSources
       \/ \E in \in NetworkInputs \cup FlagInputs :
            /\ modules = in.modules /\ flags = in.flags
            /\ rand = [pattern |-> <<"hi", "lo", "mid">>, pos |-> 0]
    /\ bounds = <<DefaultBound, DefaultBound>>
    /\ participants = <<>>

\* parse(file_contents) returns the list of modules
CallParse ==
    /\ pc = "parse" /\ outcome = "pending"
    /\ parse(text).raised = ""
    /\ modules' = parse(text).value
    /\ outcome' = "returned"
    /\ UNCHANGED <<pc, error, source, text, flags, bounds, rand, participants>>

\* parse(file_contents) raises
CallParseRaises ==
    /\ pc = "parse" /\ outcome = "pending"
    /\ parse(text).raised # ""
    /\ error' = parse(text).raised
    /\ outcome' = "raised"
    /\ UNCHANGED <<pc, source, text, modules, flags, bounds, rand, participants>>

\* as_participant(module, opt_fields, colorize)
CallAsParticipant ==
    /\ pc = "as_participant" /\ outcome = "pending"
    /\ participants' = <<as_participant(modules[1], Fields(flags),
                                        flags.colorize, Draw(rand, 0))>>
    /\ rand' = Advance(rand, ColoursBefore(modules, flags.colorize, 2))
    /\ pc' = "randomize_placement"
    /\ UNCHANGED <<outcome, error, source, text, modules, flags, bounds>>

\* randomize_placement(participant, x_bound, y_bound) returns; it may be
\* called again on its result
CallRandomizePlacement ==
    /\ pc = "randomize_placement" /\ outcome # "raised"
    /\ LET res == randomize_placement(participants[1], bounds[1], bounds[2],
                                      rand)
       IN  /\ res.raised = ""
           /\ participants' = <<res.value>>
           /\ rand' = res.rand
    /\ outcome' = "returned"
    /\ UNCHANGED <<pc, error, source, text, modules, flags, bounds>>

\* randomize_placement(participant, x_bound, y_bound) raises
CallRandomizePlacementRaises ==
    /\ pc = "randomize_placement" /\ outcome # "raised"
    /\ LET res == randomize_placement(participants[1], bounds[1], bounds[2],
                                      rand)
       IN  /\ res.raised # ""
           /\ error' = res.raised
           /\ rand' = res.rand
    /\ outcome' = "raised"
    /\ UNCHANGED <<pc, source, text, modules, flags, bounds, participants>>

\* as_participants(modules, ...) returns the participants
CallAsParticipants ==
    /\ pc = "as_participants" /\ outcome = "pending"
    /\ LET res == as_participants(modules, flags, rand)
       IN  /\ res.raised = ""
           /\ participants' = res.value
           /\ rand' = res.rand
    /\ outcome' = "returned"
    /\ UNCHANGED <<pc, error, source, text, modules, flags, bounds>>

\* as_participants(modules, ...) raises
CallAsParticipantsRaises ==
    /\ pc = "as_participants" /\ outcome = "pending"
    /\ LET res == as_participants(modules, flags, rand)
       IN  /\ res.raised # ""
           /\ error' = res.raised
           /\ rand' = res.rand
    /\ outcome' = "raised"
    /\ UNCHANGED <<pc, source, text, modules, flags, bounds, participants>>

Init ==
    /\ outcome = "pending"
    /\ error = ""
    /\ (InitParse \/ InitParticipant \/ InitParticipants)

Next ==
    \/ CallParse
    \/ CallParseRaises
    \/ CallAsParticipant
    \/ CallRandomizePlacement
    \/ CallRandomizePlacementRaises
    \/ CallAsParticipants
    \/ CallAsParticipantsRaises

Spec == Init /\ [][Next]_vars

(***************************************************************************)
(* Properties                                                              *)
(***************************************************************************)
Returned(call) == pc = call /\ outcome = "returned"

Raised(call) == pc = call /\ outcome = "raised"

BoundModules == SelectSeq(modules, LAMBDA m : m.module_name = "bound")

OtherModules == SelectSeq(modules, LAMBDA m : m.module_name # "bound")

\* the network the connectivity is derived from
BoundNetwork ==
    IF BoundModules # <<>> THEN BoundModules[1].network ELSE <<>>

\* number of distinct signal names of both entries, the rails left out
Overlap(a, b) ==
    Cardinality({sg \in Range(a.signal_names) :
                    sg \in Range(b.signal_names) /\ sg # "G" /\ sg # "P"})

LastNamed(net, m) == Max({i \in DOMAIN net : net[i].module_name = m})

MinX(S) == Min({q[1] : q \in S})
MaxX(S) == Max({q[1] : q \in S})
MinY(S) == Min({q[2] : q \in S})
MaxY(S) == Max({q[2] : q \in S})

\* the least and the greatest point in the order by x, then y
LeastPoint(S) == <<MinX(S), Min({q[2] : q \in {t \in S : t[1] = MinX(S)}})>>
GreatestPoint(S) == <<MaxX(S), Max({q[2] : q \in {t \in S : t[1] = MaxX(S)}})>>

OutlineWidth(m) == MaxX(Range(m.dimensions)) - MinX(Range(m.dimensions))

OutlineHeight(m) ==
    GreatestPoint(Range(m.dimensions))[2] - LeastPoint(Range(m.dimensions))[2]

\* the plane as_participants places into
PlaneOf(ms) ==
    LET b == SelectSeq(ms, LAMBDA m : m.module_name = "bound")
    IN  IF b # <<>> THEN <<OutlineWidth(b[1]), OutlineHeight(b[1])>>
        ELSE <<120, 120>>

InPlane(p, plane) ==
    /\ 0 <= p.xmin /\ p.xmin < plane[1] - p.width
    /\ 0 <= p.ymin /\ p.ymin < plane[2] - p.height

EmptyRange(width, height, plane) == plane[1] <= width \/ plane[2] <= height

\* C1: a document of k >= 1 valid module blocks followed by text that is
\* not a complete valid module block makes parse fail with a syntax error
\* and return no module list.
C1_TrailingTextIsSyntaxError ==
    (pc = "parse" /\ outcome # "pending" /\ Len(source.blocks) >= 1
       /\ source.tail # <<>>)
      => (outcome = "raised" /\ error = "ParseException" /\ modules = <<>>)

\* C2 as stated: for any two entries a and b of the bound module's network
\* with different module names, neither named "bound", the weight recorded
\* for b in the map computed for a is the number of distinct signal names of
\* both, not counting "G" and "P".
C2_WeightIsOverlap ==
    Returned("as_participants") =>
      \A i, j \in DOMAIN BoundNetwork :
        LET a == BoundNetwork[i]
            b == BoundNetwork[j]
        IN  (a.module_name # b.module_name /\ a.module_name # "bound"
               /\ b.module_name # "bound")
              => /\ b.module_name \in DOMAIN connects(a, BoundNetwork)
                 /\ connects(a, BoundNetwork)[b.module_name] = Overlap(a, b)

\* C2 amended: the same, for b the last entry of the network with its
\* module name.
C2_WeightIsOverlapWithLast ==
    Returned("as_participants") =>
      \A i, j \in DOMAIN BoundNetwork :
        LET a == BoundNetwork[i]
            b == BoundNetwork[j]
        IN  (a.module_name # b.module_name /\ a.module_name # "bound"
               /\ b.module_name # "bound"
               /\ j = LastNamed(BoundNetwork, b.module_name))
              => /\ b.module_name \in DOMAIN connects(a, BoundNetwork)
                 /\ connects(a, BoundNetwork)[b.module_name] = Overlap(a, b)

\* two entries that share one signal and the rail "G": the weight is 1
C2_SharedRailNotCounted ==
    /\ Returned("as_participants")
    /\ \E i, j \in DOMAIN BoundNetwork :
         LET a == BoundNetwork[i]
             b == BoundNetwork[j]
         IN  /\ a.module_name # b.module_name
             /\ a.module_name # "bound" /\ b.module_name # "bound"
             /\ j = LastNamed(BoundNetwork, b.module_name)
             /\ "G" \in Range(a.signal_names) \cap Range(b.signal_names)
             /\ "n2" \in Range(a.signal_names) \cap Range(b.signal_names)
             /\ connects(a, BoundNetwork)[b.module_name] = 1

\* C3: in the output of as_participants no connections map has the key
\* "bound" and none has the participant's own idx as a key.
C3_NoEdgeToBoundOrSelf ==
    Returned("as_participants") =>
      \A i \in DOMAIN participants :
        participants[i].connections # NoConnections
          => /\ "bound" \notin DOMAIN participants[i].connections[1]
             /\ participants[i].idx \notin DOMAIN participants[i].connections[1]

\* a participant with edges, from a network that has an entry named "bound"
\* and an entry of the participant's own name
C3_EdgesBesideBoundEntry ==
    /\ Returned("as_participants")
    /\ \E k \in DOMAIN BoundNetwork : BoundNetwork[k].module_name = "bound"
    /\ \E i \in DOMAIN participants :
         /\ participants[i].connections # NoConnections
         /\ DOMAIN participants[i].connections[1] # {}
         /\ \E k \in DOMAIN BoundNetwork :
              BoundNetwork[k].module_name = participants[i].idx

C5_PlacementInsidePlane ==
    /\ Returned("randomize_placement") => InPlane(participants[1], bounds)
    /\ Raised("randomize_placement")
         => /\ error = "ValueError"
            /\ EmptyRange(participants[1].width, participants[1].height,
                          bounds)
    /\ (Returned("as_participants") /\ flags.rng_placement)
         => \A i \in DOMAIN participants :
              participants[i].idx # "bound"
                => InPlane(participants[i], PlaneOf(modules))
    /\ Raised("as_participants")
         => /\ error = "ValueError"
            /\ flags.rng_placement
            /\ \E i \in DOMAIN OtherModules :
                 EmptyRange(OutlineWidth(OtherModules[i]),
                            OutlineHeight(OtherModules[i]), PlaneOf(modules))

\* a participant drawn at the last position of the plane of a "bound" module
C5_DrawAtUpperEdge ==
    /\ Returned("as_participants") /\ flags.rng_placement
    /\ BoundModules # <<>>
    /\ \E i \in DOMAIN participants :
         /\ participants[i].idx # "bound"
         /\ participants[i].xmin > 0
         /\ participants[i].xmin =
              PlaneOf(modules)[1] - participants[i].width - 1

TerminalRoundTrip(d, t) ==
    /\ t.signal_name = d.name
    /\ t.terminal_type = d.type
    /\ t.x_position = d.x
    /\ t.y_position = d.y
    /\ t.side = d.side
    /\ t.position = d.pos
    /\ t.width = d.width
    /\ t.layer = d.layer
    /\ d.current # None => ("current" \in DOMAIN t /\ t.current = d.current)
    /\ d.voltage # None => ("voltage" \in DOMAIN t /\ t.voltage = d.voltage)

BlockRoundTrip(b, m) ==
    /\ Len(m.terminals) = Len(b.terms)
    /\ \A j \in DOMAIN b.terms : TerminalRoundTrip(b.terms[j], m.terminals[j])
    /\ \A j \in DOMAIN b.placements :
         LET d == b.placements[j]
         IN  /\ d.name \in DOMAIN m.placement
             /\ \E l \in DOMAIN b.placements :
                  /\ b.placements[l].name = d.name
                  /\ m.placement[d.name] =
                       <<b.placements[l].x, b.placements[l].y>>
                         \o Present(b.placements[l].reflection)
                         \o Present(b.placements[l].rotation)
    /\ \A j \in DOMAIN b.crits :
         /\ b.crits[j].name \in DOMAIN m.critical_nets
         /\ \E l \in DOMAIN b.crits :
              /\ b.crits[l].name = b.crits[j].name
              /\ m.critical_nets[b.crits[j].name] = b.crits[l].len

\* C7: every field present in the text of a Terminal, Placement or
\* Critical-net entry is in the built record with the same value, and every
\* optional field absent from the text is the unset sentinel.
C7_RoundTrip ==
    (pc = "parse" /\ outcome # "pending" /\ Len(source.blocks) >= 1
       /\ source.tail = <<>>)
      => /\ outcome = "returned"
         /\ Len(modules) = Len(source.blocks)
         /\ \A k \in DOMAIN source.blocks :
              BlockRoundTrip(source.blocks[k], modules[k])

\* C8: when a module named "bound" is present and its network has an entry
\* with module_name m, the participant with idx m receives that entry's
\* weight map as its connections, for every setting of the retain flags.
C8_ConnectionsForEveryFlag ==
    Returned("as_participants") =>
      \A k \in DOMAIN BoundNetwork : \A i \in DOMAIN participants :
        participants[i].idx = BoundNetwork[k].module_name
          => /\ participants[i].connections # NoConnections
             /\ \E l \in DOMAIN BoundNetwork :
                  /\ BoundNetwork[l].module_name = participants[i].idx
                  /\ participants[i].connections =
                       <<connects(BoundNetwork[l], BoundNetwork)>>

Shape(m) == <<m.module_name, OutlineWidth(m), OutlineHeight(m)>>

ShapeOf(p) == <<p.idx, p.width, p.height>>

\* C9: as_participants returns one record per module; without
\* rng_placement in input order, with rng_placement the records not named
\* "bound" in their input order followed by the "bound" records.
C9_OneRecordPerModule ==
    Returned("as_participants") =>
      /\ Len(participants) = Len(modules)
      /\ ~flags.rng_placement
           => \A i \in DOMAIN modules :
                ShapeOf(participants[i]) = Shape(modules[i])
      /\ flags.rng_placement
           => /\ \A k \in DOMAIN OtherModules :
                   ShapeOf(participants[k]) = Shape(OtherModules[k])
              /\ \A k \in DOMAIN BoundModules :
                   ShapeOf(participants[Len(OtherModules) + k])
                     = Shape(BoundModules[k])

\* a "bound" module given before another module is moved behind it
C9_BoundMovedLast ==
    /\ Returned("as_participants") /\ flags.rng_placement
    /\ Len(modules) >= 3
    /\ modules[1].module_name = "bound"
    /\ modules[2].module_name # "bound"
    /\ participants[Len(participants)].idx = "bound"
    /\ participants[1].idx = modules[2].module_name

\* C10: weight maps are keyed by module_name: the connections of
\* participant m are the map of the last entry named m, the weight towards
\* m in an entry's map is the overlap with the last entry named m, and
\* entries of the same module_name have no edge to each other.
C10_LastEntryOfANameWins ==
    Returned("as_participants") =>
      LET net == BoundNetwork
          AllNames == {net[k].module_name : k \in DOMAIN net}
      IN  /\ \A i \in DOMAIN participants :
               participants[i].connections # NoConnections
                 => LET m   == participants[i].idx
                        map == participants[i].connections[1]
                    IN  /\ m \in AllNames
                        /\ DOMAIN map = AllNames \ {m, "bound"}
                        /\ \A n \in DOMAIN map :
                             map[n] = Overlap(net[LastNamed(net, m)],
                                              net[LastNamed(net, n)])
          /\ \A k \in DOMAIN net :
               LET map == connects(net[k], net)
               IN  /\ net[k].module_name \notin DOMAIN map
                   /\ \A n \in DOMAIN map :
                        map[n] = Overlap(net[k], net[LastNamed(net, n)])

\* two entries of one name with different signals, and a participant of
\* another name whose weight towards them differs between the two
C10_TwoEntriesOfOneName ==
    /\ Returned("as_participants")
    /\ \E i \in DOMAIN participants :
         /\ participants[i].connections # NoConnections
         /\ \E k, l \in DOMAIN BoundNetwork :
              /\ k < l
              /\ BoundNetwork[k].module_name = BoundNetwork[l].module_name
              /\ BoundNetwork[k].module_name # participants[i].idx
              /\ BoundNetwork[k].module_name # "bound"
              /\ BoundNetwork[l].module_name
                   \in DOMAIN participants[i].connections[1]
              /\ Overlap(BoundNetwork[LastNamed(BoundNetwork,
                                                participants[i].idx)],
                         BoundNetwork[k])
                   # participants[i].connections[1][BoundNetwork[l].module_name]

=============================================================================
